---- MODULE Spec2Model ----
(***************************************************************************)
(* A model of the rustscript runtime's cooperative scheduler: the current  *)
(* thread, the FIFO ready queue, the blocked queue of (thread, semaphore)  *)
(* pairs and the shared semaphore counters, driven by the micro-code       *)
(* handlers wait (vm/ignite/src/micro_code/wait.rs) and its counterparts   *)
(* signal, spawn, ld, pop and done.                                        *)
(***************************************************************************)
EXTENDS Integers, Sequences, FiniteSets, TLC

\* ------------------------------------------------------------------ bounds
MaxThreads == 3     \* threads ever created, the main thread included
MaxStack   == 1     \* depth of a thread's operand stack
NumSems    == 2     \* semaphores shared through the environment
MaxCount   == 1     \* largest semaphore counter (initial value or after signal)
MaxSteps   == 14    \* instructions executed in one run
MaxFrames   == 3    \* environment frames, the global frame included
MaxEnvSteps == 7    \* environment operations in one run
MaxItems    == 4    \* fragments a source text is put together from

\* ------------------------------------------------------------- constants
MAIN_THREAD_ID == 1

SemIds    == 1..NumSems

\* VmError kinds a scheduler handler can return (error.rs).
OperandStackUnderflow == "OperandStackUnderflow"
NoThreadsInReadyQueue == "NoThreadsInReadyQueue"
TypeErrors            == {"BadType", "TypeMismatch"}

\* ------------------------------------------------------------------ values
\* Value::Semaphore is a shared handle: two handles are the same semaphore
\* when they name the same counter of the heap.
SemValue(s) == [kind |-> "Semaphore", id |-> s]
IntValue(n) == [kind |-> "Int", id |-> n]
\* Faulty variant: the conversion accepts any value as a semaphore handle.
IsSemaphore_unchecked(v) == TRUE
IsSemaphore(v) == v.kind = "Semaphore"

\* A thread: its id and its operand stack (top of stack = last element).
Thread(id, stack) == [thread_id |-> id, operand_stack |-> stack]

\* rt.current_thread after `let current_thread = rt.current_thread;` moved
\* it out and before it is assigned again: the field holds no thread.
MovedThread == Thread(0, <<>>)

Runtime(cur, ready, blocked, count) ==
    [current_thread |-> cur, ready_queue |-> ready,
     blocked_queue |-> blocked, thread_count |-> count]

\* Result<Runtime>: Ok(rt) or Err(e); `heap` is the semaphore counters the
\* call leaves behind (they are shared, so they outlive a dropped runtime).
Result(err, r, h) == [err |-> err, rt |-> r, heap |-> h]
Ok == "Ok"

VARIABLES
    rt,         \* the Runtime threaded through the handlers
    heap,       \* heap[s]: the counter behind semaphore s
    status,     \* "Running", "Done", or the VmError that ended the run
    last_op,    \* the handler that made the last step, and its semaphore
    pre,        \* rt, heap and before as they were before the last step
    before,     \* <<a, b>>: a and b are both ready and a became ready first
    holders,    \* holders[s]: waits passed on s minus signals executed on s
    sem_init,   \* the value each semaphore was created with
    steps       \* instructions executed so far

sched_vars == <<rt, heap, status, last_op, pre, before, holders, sem_init, steps>>

\* The environment's state (section environment below).
VARIABLES
    frames,     \* the frames created so far; frames[GlobalFrame] is new_global()
    env_last,   \* the last environment operation, its arguments and result
    env_pre,    \* frames as they were before the last operation
    env_steps   \* environment operations executed so far

env_vars == <<frames, env_last, env_pre, env_steps>>

\* The state of one parse, compile and run (sections parser, compiler and
\* run below).
VARIABLES
    source,      \* the tokens the lexer hands to the parser
    lexed,       \* the fragments the source has been put together from
    stage,       \* how far the source has come: "lexing", "parsed", ...
    parsed,      \* the result of Parser::parse
    bytecode,    \* the result of Compiler::compile
    machine,     \* the runtime executing bytecode, and its program counter
    final_value  \* the value the run ended with

pipe_vars == <<source, lexed, stage, parsed, bytecode, machine, final_value>>

\* ------------------------------------------------------------ operand stack
stack_top(st) == st[Len(st)]
\* Faulty variant: the top of the stack is read but left in place.
stack_pop_kept(st) == st
stack_pop(st) == SubSeq(st, 1, Len(st) - 1)
stack_push(st, v) == Append(st, v)

\* ------------------------------------------------------------------- wait
\* Faulty variant: the guard lets a wait through at counter 0.
wait_proceeds_at_zero(c) == c >= 0
\* Faulty variant: the wait blocks whatever the counter is.
wait_proceeds_never(c) == FALSE
\* `if *sem_guard > 0`
wait_proceeds(c) == c > 0

\* Faulty variant: the permit is not taken.
wait_decrement_skipped(c) == c
\* `*sem_guard -= 1`
wait_decrement(c) == c - 1

\* Faulty variants: the blocked thread is put at the front, or is not queued,
\* or replaces the queue.
block_current_replace(bq, t, s) == <<<<t, s>>>>
block_current_front(bq, t, s) == <<<<t, s>>>> \o bq
block_current_lost(bq, t, s) == bq
\* `rt.blocked_queue.push_back((current_thread, sem.clone()))`
block_current(bq, t, s) == Append(bq, <<t, s>>)

\* Faulty variant: the ready queue is popped at the back.
pop_back(q) == <<q[Len(q)], SubSeq(q, 1, Len(q) - 1)>>
\* `rt.ready_queue.pop_front()`: <<the thread taken, the queue left>>.
pop_front(q) == <<Head(q), Tail(q)>>

\* wait(rt): type_err is the error of the failed Value -> Semaphore conversion.
wait(r, h, type_err) ==
    LET st == r.current_thread.operand_stack IN
    IF st = <<>>
    THEN Result(OperandStackUnderflow, r, h)
    ELSE
      LET v      == stack_top(st)
          popped == [r EXCEPT !.current_thread.operand_stack = stack_pop(st)]
      IN
      IF ~IsSemaphore(v)
      THEN Result(type_err, popped, h)
      ELSE
        LET s == v.id IN
        IF wait_proceeds(h[s])
        THEN Result(Ok, popped, [h EXCEPT ![s] = wait_decrement(h[s])])
        ELSE
          LET moved == [popped EXCEPT
                          !.current_thread = MovedThread,
                          !.blocked_queue  =
                              block_current(popped.blocked_queue,
                                            popped.current_thread, s)]
          IN
          IF moved.ready_queue = <<>>
          THEN Result(NoThreadsInReadyQueue, moved, h)
          ELSE Result(Ok,
                      [moved EXCEPT
                          !.current_thread = pop_front(moved.ready_queue)[1],
                          !.ready_queue    = pop_front(moved.ready_queue)[2]],
                      h)

\* ----------------------------------------------------------------- signal
\* Faulty variant: the scan takes the latest-blocked waiter.
last_waiter(bq, s) ==
    LET hits == {i \in DOMAIN bq : bq[i][2] = s} IN
    IF hits = {} THEN 0
    ELSE CHOOSE i \in hits : \A j \in hits : i >= j
\* Index of the earliest blocked-queue entry paired with semaphore s, or 0.
first_waiter(bq, s) ==
    LET hits == {i \in DOMAIN bq : bq[i][2] = s} IN
    IF hits = {} THEN 0
    ELSE CHOOSE i \in hits : \A j \in hits : i <= j

remove_at(q, i) == SubSeq(q, 1, i - 1) \o SubSeq(q, i + 1, Len(q))

\* signal(rt): increment under the lock, then hand the permit to the
\* earliest-blocked waiter of the same semaphore if there is one.
signal(r, h, type_err) ==
    LET st == r.current_thread.operand_stack IN
    IF st = <<>>
    THEN Result(OperandStackUnderflow, r, h)
    ELSE
      LET v      == stack_top(st)
          popped == [r EXCEPT !.current_thread.operand_stack = stack_pop(st)]
      IN
      IF ~IsSemaphore(v)
      THEN Result(type_err, popped, h)
      ELSE
        LET s           == v.id
            incremented == [h EXCEPT ![s] = h[s] + 1]
            i           == first_waiter(popped.blocked_queue, s)
        IN
        IF i = 0
        THEN Result(Ok, popped, incremented)
        ELSE Result(Ok,
                    [popped EXCEPT
                        !.blocked_queue = remove_at(popped.blocked_queue, i),
                        !.ready_queue   =
                            Append(popped.ready_queue, popped.blocked_queue[i][1])],
                    [incremented EXCEPT ![s] = incremented[s] - 1])

\* ------------------------------------------------------------------ spawn
\* Faulty variant: every child gets the id of the first child.
spawn_reused_id(r, h) ==
    LET child_id == MAIN_THREAD_ID + 1 IN
    Result(Ok,
           [r EXCEPT
               !.thread_count = r.thread_count + 1,
               !.ready_queue  = Append(r.ready_queue, Thread(child_id, <<>>)),
               !.current_thread.operand_stack =
                   stack_push(r.current_thread.operand_stack, IntValue(child_id))],
           h)
\* spawn(rt, addr): a thread with a fresh id and empty stacks joins the back
\* of the ready queue; the spawning thread keeps running and receives the
\* child's id on its operand stack.
spawn(r, h) ==
    LET child_id == MAIN_THREAD_ID + r.thread_count IN
    Result(Ok,
           [r EXCEPT
               !.thread_count = r.thread_count + 1,
               !.ready_queue  = Append(r.ready_queue, Thread(child_id, <<>>)),
               !.current_thread.operand_stack =
                   stack_push(r.current_thread.operand_stack, IntValue(child_id))],
           h)

\* ------------------------------------------------------------ ld, pop, done
\* ld(rt, sym) where sym is bound to semaphore s in the shared environment.
ld(r, h, s) ==
    Result(Ok,
           [r EXCEPT !.current_thread.operand_stack =
                         stack_push(r.current_thread.operand_stack, SemValue(s))],
           h)

pop(r, h) ==
    LET st == r.current_thread.operand_stack IN
    IF st = <<>>
    THEN Result(OperandStackUnderflow, r, h)
    ELSE Result(Ok, [r EXCEPT !.current_thread.operand_stack = stack_pop(st)], h)

\* DONE: the current thread halts; the front of the ready queue takes over,
\* and with no ready thread the run completes.
Finished == "Done"
done(r, h) ==
    IF r.ready_queue = <<>>
    THEN Result(Finished, r, h)
    ELSE Result(Ok,
                [r EXCEPT !.current_thread = Head(r.ready_queue),
                          !.ready_queue    = Tail(r.ready_queue)],
                h)

\* ------------------------------------------------------- history variables
ready_ids(r)   == {r.ready_queue[i].thread_id : i \in DOMAIN r.ready_queue}
blocked_ids(r) == {r.blocked_queue[i][1].thread_id : i \in DOMAIN r.blocked_queue}
blocked_on(r, s) ==
    {r.blocked_queue[i][1].thread_id :
        i \in {j \in DOMAIN r.blocked_queue : r.blocked_queue[j][2] = s}}

\* The order in which the threads now ready became ready.
track_before(b, old, new) ==
    LET stay    == ready_ids(old) \cap ready_ids(new)
        entered == ready_ids(new) \ ready_ids(old)
    IN {p \in b : p[1] \in stay /\ p[2] \in stay} \cup (stay \X entered)

\* A thread passes a wait on s when wait returns Ok and it keeps running, or
\* when it leaves the blocked queue where it was paired with s.
passes(op, s, old, res, t) ==
    IF res.err # Ok THEN 0
    ELSE (IF op = "wait" /\ s = t
             /\ res.rt.current_thread.thread_id = old.current_thread.thread_id
          THEN 1 ELSE 0)
         + Cardinality(blocked_on(old, t) \ blocked_on(res.rt, t))

signals(op, s, res, t) == IF op = "signal" /\ s = t /\ res.err = Ok THEN 1 ELSE 0

\* The semaphore a wait or signal is about to pop, 0 when there is none.
top_sem(r) ==
    LET st == r.current_thread.operand_stack IN
    IF st # <<>> /\ IsSemaphore(stack_top(st)) THEN stack_top(st).id ELSE 0

\* One step of the dispatcher: the handler's result replaces the runtime;
\* an error ends the run.
Apply(op, s, res) ==
    /\ rt' = res.rt
    /\ heap' = res.heap
    /\ status' = IF res.err = Ok THEN "Running" ELSE res.err
    /\ last_op' = [name |-> op, sem |-> s]
    /\ pre' = [rt |-> rt, heap |-> heap, before |-> before]
    /\ before' = track_before(before, rt, res.rt)
    /\ holders' = [t \in SemIds |->
                      holders[t] + passes(op, s, rt, res, t) - signals(op, s, res, t)]
    /\ steps' = steps + 1
    /\ UNCHANGED sem_init
    /\ UNCHANGED <<env_vars, pipe_vars>>

\* ------------------------------------------------------------- environment
\* Environment (bytecode/src/environment.rs): frames live in an arena, a
\* frame's parent is the index of another frame, 0 for None; a frame's env is
\* a map whose domain is the set of symbols it binds.
\* Symbols and values the operations are exercised with (test_frame,
\* test_frame_with_parent). Integers and floats of this section are written
\* as text: i64::MAX and the f64 constants have no TLC number.
Symbols   == {"x", "y"}
EnvValues == {[kind |-> "Int", id |-> "42"], [kind |-> "Int", id |-> "43"]}

\* Option<Value>
None    == <<>>
Some(v) == <<v>>

EmptyMap == [sym \in {} |-> None]

\* HashMap::insert
insert(map, sym, val) ==
    [k \in DOMAIN map \cup {sym} |-> IF k = sym THEN val ELSE map[k]]

Frame(parent, map) == [parent |-> parent, env |-> map]

\* Environment::new
new == Frame(0, EmptyMap)

\* The frames on the chain of f, f first.
RECURSIVE chain(_, _)
chain(fr, f) ==
    IF fr[f].parent = 0 THEN <<f>> ELSE <<f>> \o chain(fr, fr[f].parent)

\* The positions on the chain of f whose frame binds sym.
binders(fr, f, sym) ==
    {i \in DOMAIN chain(fr, f) : sym \in DOMAIN fr[chain(fr, f)[i]].env}

\* The frame nearest to f on its chain that binds sym; binders is not empty.
nearest_binder(fr, f, sym) ==
    chain(fr, f)[CHOOSE i \in binders(fr, f, sym) :
                     \A j \in binders(fr, f, sym) : i <= j]

\* Faulty variant: the binding goes to the nearest frame that already binds
\* the symbol (assignment instead of declaration).
set_nearest_binding(fr, f, sym, val) ==
    LET target == IF binders(fr, f, sym) = {} THEN f ELSE nearest_binder(fr, f, sym)
    IN [fr EXCEPT ![target].env = insert(fr[target].env, sym, val)]
\* Environment::set on frame f: `self.env.insert(sym.into(), val.into())`
set(fr, f, sym, val) == [fr EXCEPT ![f].env = insert(fr[f].env, sym, val)]

\* Environment::set_parent on frame f
set_parent(fr, f, p) == [fr EXCEPT ![f].parent = p]

\* Faulty variant: the outermost binding wins.
RECURSIVE get_outermost(_, _, _)
get_outermost(fr, f, sym) ==
    LET up == IF fr[f].parent # 0 THEN get_outermost(fr, fr[f].parent, sym) ELSE None IN
    IF up # None THEN up
    ELSE IF sym \in DOMAIN fr[f].env THEN Some(fr[f].env[sym]) ELSE None
\* Environment::get on frame f
RECURSIVE get(_, _, _)
get(fr, f, sym) ==
    IF sym \in DOMAIN fr[f].env
    THEN Some(fr[f].env[sym])
    ELSE IF fr[f].parent # 0
         THEN get(fr, fr[f].parent, sym)
         ELSE None

\* Faulty variant: a lookup answered by an ancestor is cached in the frame.
frames_after_get_cached(fr, f, sym) ==
    IF sym \notin DOMAIN fr[f].env /\ get(fr, f, sym) # None
    THEN [fr EXCEPT ![f].env = insert(fr[f].env, sym, get(fr, f, sym)[1])]
    ELSE fr
\* The frames after Environment::get: `&self`, nothing is written.
frames_after_get(fr, f, sym) == fr

\* builtin::math::tan::tan()
TAN_SYM == "tan"
tan ==
    [kind |-> "Closure", fn_type |-> "Builtin", sym |-> TAN_SYM,
     prms |-> <<"x">>, addr |-> 0, env |-> "Weak::new()"]

\* Environment::new_global: the frame after its nine calls of set.
GlobalBindings ==
    <<  <<"true",      [kind |-> "Bool",  id |-> "true"]>>,
        <<"false",     [kind |-> "Bool",  id |-> "false"]>>,
        <<"PI",        [kind |-> "Float", id |-> "f64::consts::PI"]>>,
        <<"E",         [kind |-> "Float", id |-> "f64::consts::E"]>>,
        <<"MAX_INT",   [kind |-> "Int",   id |-> "i64::MAX"]>>,
        <<"MIN_INT",   [kind |-> "Int",   id |-> "i64::MIN"]>>,
        <<"MAX_FLOAT", [kind |-> "Float", id |-> "f64::MAX"]>>,
        <<"MIN_FLOAT", [kind |-> "Float", id |-> "f64::MIN"]>>,
        <<"EPSILON",   [kind |-> "Float", id |-> "f64::EPSILON"]>>  >>

RECURSIVE set_all(_, _)
set_all(map, bindings) ==
    IF bindings = <<>> THEN map
    ELSE set_all(insert(map, Head(bindings)[1], Head(bindings)[2]), Tail(bindings))

new_global == Frame(0, set_all(new.env, GlobalBindings))

GlobalFrame == 1

EnvOp(op, f, sym, val, result) ==
    [op |-> op, frame |-> f, sym |-> sym, val |-> val, result |-> result]

EnvInit ==
    /\ frames = <<new_global>>
    /\ env_last = EnvOp("new_global", GlobalFrame, "", None, None)
    /\ env_pre = frames
    /\ env_steps = 0

\* ------------------------------------------------------------------ lexer
\* Token (lexer crate): a type and, for literals and identifiers, a value.
\* A float's value is written as the shortest decimal text that denotes it,
\* which is the text f64::to_string prints.
Integer(n) == [type |-> "Integer", i64 |-> n]
Float(x)   == [type |-> "Float", f64 |-> x]
Bool(b)    == [type |-> "Bool", bool |-> b]
Ident(s)   == [type |-> "Ident", name |-> s]
Let        == [type |-> "Let"]
Eq         == [type |-> "Eq"]
Semi       == [type |-> "Semi"]
Plus       == [type |-> "Plus"]
Star       == [type |-> "Star"]

\* Text is a sequence of characters.
Digit(d) == <<"0", "1", "2", "3", "4", "5", "6", "7", "8", "9">>[d + 1]

\* i64::to_string, for n >= 0
RECURSIVE i64_to_string(_)
i64_to_string(n) ==
    IF n < 10 THEN <<Digit(n)>> ELSE i64_to_string(n \div 10) \o <<Digit(n % 10)>>

f64_to_string(x) == x

bool_to_string(b) == IF b THEN <<"t", "r", "u", "e">> ELSE <<"f", "a", "l", "s", "e">>

\* The spelling of a token in the source text.
spelling(tok) ==
    CASE tok.type = "Integer" -> i64_to_string(tok.i64)
      [] tok.type = "Float"   -> f64_to_string(tok.f64)
      [] tok.type = "Bool"    -> bool_to_string(tok.bool)
      [] tok.type = "Ident"   -> tok.name
      [] tok.type = "Let"     -> <<"l", "e", "t">>
      [] tok.type = "Eq"      -> <<"=">>
      [] tok.type = "Semi"    -> <<";">>
      [] tok.type = "Plus"    -> <<"+">>
      [] tok.type = "Star"    -> <<"*">>

\* The source text with its whitespace removed.
RECURSIVE source_text(_)
source_text(toks) ==
    IF toks = <<>> THEN <<>> ELSE spelling(Head(toks)) \o source_text(Tail(toks))

\* ----------------------------------------------------------------- parser
\* Expr, LetStmt, Decl, BlockSeq
ExprInteger(v) == [expr |-> "Integer", i64 |-> v]
ExprFloat(v)   == [expr |-> "Float", f64 |-> v]
ExprBool(v)    == [expr |-> "Bool", bool |-> v]
BinOpExpr(op, lhs, rhs) == [expr |-> "BinOpExpr", op |-> op, lhs |-> lhs, rhs |-> rhs]

ExprStmt(e)    == [decl |-> "ExprStmt", expr |-> e]
LetStmt(id, e) == [decl |-> "LetStmt", ident |-> id, expr |-> e]
NoDecl         == [decl |-> "none"]

BlockSeq(decls, last_expr) == [decls |-> decls, last_expr |-> last_expr]

\* Decl::to_expr
to_expr(d) == d.expr

\* impl Display for BinOpType
BinOpType_to_string(op) ==
    CASE op = "Add" -> <<"+">>
      [] op = "Sub" -> <<"-">>
      [] op = "Mul" -> <<"*">>
      [] op = "Div" -> <<"/">>

\* impl Display for Expr
RECURSIVE Expr_to_string(_)
Expr_to_string(e) ==
    CASE e.expr = "Integer"   -> i64_to_string(e.i64)
      [] e.expr = "Float"     -> f64_to_string(e.f64)
      [] e.expr = "Bool"      -> bool_to_string(e.bool)
      [] e.expr = "BinOpExpr" ->
             Expr_to_string(e.lhs) \o BinOpType_to_string(e.op) \o Expr_to_string(e.rhs)

\* Faulty variant: the let statement is printed without its spaces.
LetStmt_to_string_unspaced(s) ==
    <<"l", "e", "t">> \o s.ident \o <<"=">> \o Expr_to_string(s.expr)
\* impl Display for LetStmt: "let {} = {}"
LetStmt_to_string(s) ==
    <<"l", "e", "t", " ">> \o s.ident \o <<" ", "=", " ">> \o Expr_to_string(s.expr)

\* impl Display for Decl
Decl_to_string(d) ==
    IF d.decl = "ExprStmt" THEN Expr_to_string(d.expr) ELSE LetStmt_to_string(d)

\* impl Display for BlockSeq: every decl as "{};", then the last expression
RECURSIVE decls_to_string(_)
decls_to_string(decls) ==
    IF decls = <<>> THEN <<>>
    ELSE Decl_to_string(Head(decls)) \o <<";">> \o decls_to_string(Tail(decls))

BlockSeq_to_string(b) ==
    decls_to_string(b.decls)
    \o (IF b.last_expr = None THEN <<>> ELSE Expr_to_string(b.last_expr[1]))

\* ParseError messages; the text that names the offending token is left out.
ExpectedPrevTok    == "Expected previous token"
ExpectedIdentifier == "Expected identifier"
ExpectedEq         == "Expected '='"
CantAssign         == "Can't assign to a let statement"
ExpectedSemiLet    == "Expected semicolon after let"
ExpectedInfix      == "Expected infix operator but got"
NotAnExpression    == "Unexpected token - not an expression"
UnexpectedToken    == "Unexpected token"
ExpectedSemicolon  == "Expected semicolon"

\* Parser: prev_tok and the position of the peekable lexer in the tokens.
Parser(pos, prev_tok) == [pos |-> pos, prev_tok |-> prev_tok]

\* Parser::new
Parser_new == Parser(0, None)

\* self.lexer.peek()
peek(toks, p) == IF p.pos < Len(toks) THEN Some(toks[p.pos + 1]) ELSE None

is_peek_token_type(toks, p, type) ==
    peek(toks, p) # None /\ peek(toks, p)[1].type = type

advance(toks, p) ==
    IF peek(toks, p) # None THEN Parser(p.pos + 1, peek(toks, p)) ELSE p

\* Result<Decl, ParseError> together with the parser the call leaves behind
PResult(err, d, p) == [err |-> err, decl |-> d, p |-> p]

IsLiteral(tok) == tok.type \in {"Integer", "Float", "Bool"}

\* The lhs of parse_expr: the literal held by prev_tok
literal(tok) ==
    CASE tok.type = "Integer" -> ExprInteger(tok.i64)
      [] tok.type = "Float"   -> ExprFloat(tok.f64)
      [] tok.type = "Bool"    -> ExprBool(tok.bool)

\* Faulty variant: every token passes for an infix operator.
get_infix_bp_lenient(tok) == [err |-> Ok, l_bp |-> 1, r_bp |-> 2]
get_infix_bp(tok) ==
    CASE tok.type \in {"Plus", "Minus"} -> [err |-> Ok, l_bp |-> 1, r_bp |-> 2]
      [] tok.type \in {"Star", "Slash"} -> [err |-> Ok, l_bp |-> 3, r_bp |-> 4]
      [] OTHER -> [err |-> ExpectedInfix, l_bp |-> 0, r_bp |-> 0]

\* parse_expr; parse_expr_loop is its `loop`, entered with lhs. The rhs a
\* round of the loop parses is handed to dbg! and dropped: lhs stays as it is.
RECURSIVE parse_expr(_, _, _)
RECURSIVE parse_expr_loop(_, _, _, _)
parse_expr(toks, p, min_bp) ==
    IF p.prev_tok = None THEN PResult(ExpectedPrevTok, NoDecl, p)
    ELSE IF ~IsLiteral(p.prev_tok[1]) THEN PResult(NotAnExpression, NoDecl, p)
    ELSE parse_expr_loop(toks, p, ExprStmt(literal(p.prev_tok[1])), min_bp)

parse_expr_loop(toks, p, lhs, min_bp) ==
    IF \/ peek(toks, p) = None
       \/ is_peek_token_type(toks, p, "Semi")
       \/ is_peek_token_type(toks, p, "CloseBrace")
    THEN PResult(Ok, lhs, p)
    ELSE LET bp == get_infix_bp(peek(toks, p)[1]) IN
         IF bp.err # Ok THEN PResult(bp.err, NoDecl, p)
         ELSE IF bp.l_bp < min_bp THEN PResult(Ok, lhs, advance(toks, p))
         ELSE LET rhs == parse_expr(toks, advance(toks, advance(toks, p)), bp.r_bp) IN
              IF rhs.err # Ok THEN rhs
              ELSE parse_expr_loop(toks, rhs.p, lhs, min_bp)

RECURSIVE parse_decl(_, _)
RECURSIVE parse_let(_, _)
parse_let(toks, p) ==
    IF ~is_peek_token_type(toks, p, "Ident") THEN PResult(ExpectedIdentifier, NoDecl, p)
    ELSE LET ident == peek(toks, p)[1].name
             p1 == advance(toks, p) IN
         IF ~is_peek_token_type(toks, p1, "Eq") THEN PResult(ExpectedEq, NoDecl, p1)
         ELSE LET expr == parse_decl(toks, advance(toks, advance(toks, p1))) IN
              IF expr.err # Ok THEN expr
              ELSE IF expr.decl.decl = "LetStmt" THEN PResult(CantAssign, NoDecl, expr.p)
              ELSE IF ~is_peek_token_type(toks, expr.p, "Semi")
                   THEN PResult(ExpectedSemiLet, NoDecl, expr.p)
              ELSE PResult(Ok, LetStmt(ident, to_expr(expr.decl)), expr.p)

parse_decl(toks, p) ==
    IF p.prev_tok = None THEN PResult(ExpectedPrevTok, NoDecl, p)
    ELSE IF IsLiteral(p.prev_tok[1]) THEN parse_expr(toks, p, 0)
    ELSE IF p.prev_tok[1].type = "Let" THEN parse_let(toks, p)
    ELSE PResult(UnexpectedToken, NoDecl, p)

\* Result<BlockSeq, ParseError>
SeqResult(err, b) == [err |-> err, block |-> b]

\* parse_seq, entered with the decls collected so far
RECURSIVE parse_seq(_, _, _)
parse_seq(toks, p, decls) ==
    IF peek(toks, p) = None THEN SeqResult(Ok, BlockSeq(decls, None))
    ELSE LET expr == parse_decl(toks, advance(toks, p)) IN
         IF expr.err # Ok THEN SeqResult(expr.err, BlockSeq(<<>>, None))
         ELSE IF peek(toks, expr.p) = None \/ is_peek_token_type(toks, expr.p, "CloseBrace")
              THEN SeqResult(Ok, BlockSeq(decls, Some(to_expr(expr.decl))))
         ELSE IF is_peek_token_type(toks, expr.p, "Semi")
              THEN parse_seq(toks, advance(toks, expr.p), Append(decls, expr.decl))
         ELSE SeqResult(ExpectedSemicolon, BlockSeq(<<>>, None))

\* Parser::new(lexer).parse()
parse(toks) == parse_seq(toks, Parser_new, <<>>)

\* --------------------------------------------------------------- compiler
FloatValue(x) == [kind |-> "Float", f64 |-> x]
BoolValue(b)  == [kind |-> "Bool", bool |-> b]
Unit          == [kind |-> "Unit"]

\* ByteCode
ldc(v) == [op |-> "LDC", val |-> v]
POP    == [op |-> "POP"]
DONE   == [op |-> "DONE"]

\* unimplemented!() ends the compiler with a panic.
Unimplemented == "panicked: not implemented"

\* Result<Vec<ByteCode>, CompileError>, or the panic that ended the call
CResult(err, code) == [err |-> err, code |-> code]

\* Faulty variant: no instruction is emitted for an expression.
compile_expr_nothing(e) == CResult(Ok, <<>>)
compile_expr(e) ==
    CASE e.expr = "Integer" -> CResult(Ok, <<ldc(IntValue(e.i64))>>)
      [] e.expr = "Float"   -> CResult(Ok, <<ldc(FloatValue(e.f64))>>)
      [] e.expr = "Bool"    -> CResult(Ok, <<ldc(BoolValue(e.bool))>>)
      [] OTHER              -> CResult(Unimplemented, <<>>)

compile_decl(d) ==
    IF d.decl = "ExprStmt" THEN compile_expr(d.expr) ELSE CResult(Unimplemented, <<>>)

\* The `for decl in decls` of compile, entered with the bytecode so far
RECURSIVE compile_decls(_, _)
compile_decls(decls, code) ==
    IF decls = <<>> THEN CResult(Ok, code)
    ELSE LET c == compile_decl(Head(decls)) IN
         IF c.err # Ok THEN CResult(c.err, <<>>)
         ELSE compile_decls(Tail(decls), code \o c.code \o <<POP>>)

\* Compiler::new(program).compile()
compile(program) ==
    LET stmts == compile_decls(program.decls, <<>>) IN
    IF stmts.err # Ok THEN stmts
    ELSE IF program.last_expr # None
         THEN LET c == compile_expr(program.last_expr[1]) IN
              IF c.err # Ok THEN CResult(c.err, <<>>)
              ELSE CResult(Ok, stmts.code \o c.code \o <<DONE>>)
         ELSE CResult(Ok, stmts.code \o <<DONE>>)

\* -------------------------------------------------------------------- run
PcOutOfBounds == "PcOutOfBounds"

\* The runtime a program is loaded into, and its program counter
Machine(r, pc) == [rt |-> r, pc |-> pc]
load == Machine(Runtime(Thread(MAIN_THREAD_ID, <<>>), <<>>, <<>>, 1), 0)

\* LDC(v): push v
ldc_op(r, h, v) ==
    Result(Ok,
           [r EXCEPT !.current_thread.operand_stack =
                         stack_push(r.current_thread.operand_stack, v)],
           h)

\* One instruction: fetch at the program counter, raise it by one, apply the
\* handler.
step(m, code, h) ==
    IF m.pc >= Len(code) THEN Result(PcOutOfBounds, m.rt, h)
    ELSE LET instr == code[m.pc + 1] IN
         CASE instr.op = "LDC"  -> ldc_op(m.rt, h, instr.val)
           [] instr.op = "POP"  -> pop(m.rt, h)
           [] instr.op = "DONE" -> done(m.rt, h)

\* The value a finished run hands back: the top of the operand stack, Unit
\* when the stack is empty.
final(r) ==
    IF r.current_thread.operand_stack = <<>> THEN Unit
    ELSE stack_top(r.current_thread.operand_stack)

\* --------------------------------------------- parse, compile, run: inputs
Fragments ==
    { <<Integer(2)>>, <<Integer(30)>>, <<Float(<<"4", ".", "5">>)>>, <<Bool(TRUE)>>,
      <<Let>>, <<Ident(<<"x">>)>>, <<Eq>>, <<Semi>>, <<Plus>>, <<Star>>,
      <<Let, Ident(<<"x">>), Eq>> }

NoValue == [kind |-> "none"]

PipeInit ==
    /\ source = <<>>
    /\ lexed = 0
    /\ stage = "lexing"
    /\ parsed = SeqResult(Ok, BlockSeq(<<>>, None))
    /\ bytecode = CResult(Ok, <<>>)
    /\ machine = load
    /\ final_value = NoValue

\* ------------------------------------------------------------ specification
\* The runtime after load: the main thread alone.
SchedInit ==
    /\ rt = Runtime(Thread(MAIN_THREAD_ID, <<>>), <<>>, <<>>, 1)
    /\ heap = [s \in SemIds |-> (s - 1) % (MaxCount + 1)]
    /\ sem_init = heap
    /\ status = "Running"
    /\ last_op = [name |-> "load", sem |-> 0]
    /\ before = {}
    /\ pre = [rt |-> rt, heap |-> heap, before |-> before]
    /\ holders = [s \in SemIds |-> 0]
    /\ steps = 0

\* The scheduler, the environment and the parser each start from their own
\* initial state; a specification below moves one of them.
Init == SchedInit /\ EnvInit /\ PipeInit

HasRoom == Len(rt.current_thread.operand_stack) < MaxStack

\* The dispatcher runs while no handler has failed and the run is not over.
CanStep == status = "Running" /\ steps < MaxSteps

Wait ==
    /\ CanStep
    /\ \E e \in TypeErrors : Apply("wait", top_sem(rt), wait(rt, heap, e))

Signal ==
    /\ CanStep
    /\ top_sem(rt) # 0 => heap[top_sem(rt)] < MaxCount
    /\ \E e \in TypeErrors : Apply("signal", top_sem(rt), signal(rt, heap, e))

Spawn ==
    /\ CanStep
    /\ rt.thread_count < MaxThreads
    /\ HasRoom
    /\ Apply("spawn", 0, spawn(rt, heap))

Ld ==
    /\ CanStep
    /\ HasRoom
    /\ \E s \in SemIds : Apply("ld", s, ld(rt, heap, s))

Pop ==
    /\ CanStep
    /\ Apply("pop", 0, pop(rt, heap))

Done ==
    /\ CanStep
    /\ Apply("done", 0, done(rt, heap))

Next == Wait \/ Signal \/ Spawn \/ Ld \/ Pop \/ Done

vars == <<sched_vars, env_vars, pipe_vars>>

Spec == Init /\ [][Next]_vars

\* ------------------------------------------- specification: the environment
\* The scheduler is at rest while the environment is exercised.
EnvApply(op, fr) ==
    /\ env_steps < MaxEnvSteps
    /\ frames' = fr
    /\ env_last' = op
    /\ env_pre' = frames
    /\ env_steps' = env_steps + 1
    /\ UNCHANGED <<sched_vars, pipe_vars>>

\* Environment::new_wrapped()
NewWrapped ==
    /\ Len(frames) < MaxFrames
    /\ EnvApply(EnvOp("new_wrapped", Len(frames) + 1, "", None, None),
                Append(frames, new))

\* f.borrow_mut().set_parent(p), for p a frame that is not below f
SetParent ==
    \E f \in DOMAIN frames \ {GlobalFrame}, p \in DOMAIN frames :
        /\ \A i \in DOMAIN chain(frames, p) : chain(frames, p)[i] # f
        /\ EnvApply(EnvOp("set_parent", f, "", None, None), set_parent(frames, f, p))

\* f.borrow_mut().set(sym, val)
Set ==
    \E f \in DOMAIN frames, sym \in Symbols, val \in EnvValues :
        EnvApply(EnvOp("set", f, sym, Some(val), None), set(frames, f, sym, val))

\* f.borrow().get(&sym)
Get ==
    \E f \in DOMAIN frames, sym \in Symbols :
        EnvApply(EnvOp("get", f, sym, None, get(frames, f, sym)),
                 frames_after_get(frames, f, sym))

NextEnv == NewWrapped \/ SetParent \/ Set \/ Get

SpecEnv == Init /\ [][NextEnv]_vars

\* ------------------------------------- specification: parse, compile, run
\* The scheduler and the environment are at rest while a source text goes
\* through the parser, the compiler and the run loop.
\* The lexer reads on: the source grows by one fragment.
Lex ==
    /\ stage = "lexing"
    /\ lexed < MaxItems
    /\ \E f \in Fragments : source' = source \o f
    /\ lexed' = lexed + 1
    /\ UNCHANGED <<stage, parsed, bytecode, machine, final_value, sched_vars, env_vars>>

\* Parser::new(lexer).parse() on the source read so far
Parse ==
    /\ stage = "lexing"
    /\ parsed' = parse(source)
    /\ stage' = IF parsed'.err = Ok THEN "parsed" ELSE "parse_error"
    /\ UNCHANGED <<source, lexed, bytecode, machine, final_value, sched_vars, env_vars>>

Compile ==
    /\ stage = "parsed"
    /\ bytecode' = compile(parsed.block)
    /\ stage' = IF bytecode'.err = Ok THEN "compiled" ELSE "panicked"
    /\ UNCHANGED <<source, lexed, parsed, machine, final_value, sched_vars, env_vars>>

Load ==
    /\ stage = "compiled"
    /\ machine' = load
    /\ stage' = "running"
    /\ UNCHANGED <<source, lexed, parsed, bytecode, final_value, sched_vars, env_vars>>

Step ==
    /\ stage = "running"
    /\ LET res == step(machine, bytecode.code, heap) IN
       /\ machine' = Machine(res.rt, machine.pc + 1)
       /\ stage' = CASE res.err = Ok       -> "running"
                     [] res.err = Finished -> "done"
                     [] OTHER              -> res.err
       /\ final_value' = IF res.err = Finished THEN final(res.rt) ELSE final_value
    /\ UNCHANGED <<source, lexed, parsed, bytecode, sched_vars, env_vars>>

NextPipe == Lex \/ Parse \/ Compile \/ Load \/ Step

SpecPipe == Init /\ [][NextPipe]_vars

\* run(Runtime) drives a loaded program to completion: a compiled program
\* is loaded and the run loop keeps stepping.
SpecPipeRun == SpecPipe /\ WF_vars(Load) /\ WF_vars(Step)

\* ------------------------------------------------------------------ claims
\* What the last step was, read from the history variables.
Waited(s)   == last_op.name = "wait" /\ last_op.sem = s
Signalled(s) == last_op.name = "signal" /\ last_op.sem = s
Succeeded   == status = "Running"
SameQueues  == /\ rt.ready_queue = pre.rt.ready_queue
               /\ rt.blocked_queue = pre.rt.blocked_queue
pre_stack   == pre.rt.current_thread.operand_stack

\* C1: a wait on a semaphore whose counter c is > 0 succeeds, leaves the
\* counter at c - 1, keeps the same thread current and changes no queue.
C1_WaitDecrements ==
    \A s \in SemIds :
        (Waited(s) /\ pre.heap[s] > 0) =>
            /\ Succeeded
            /\ heap[s] = pre.heap[s] - 1
            /\ \A t \in SemIds \ {s} : heap[t] = pre.heap[t]
            /\ rt.current_thread.thread_id = pre.rt.current_thread.thread_id
            /\ SameQueues

\* A wait passed on a positive counter while a spawned thread was ready.
C1_Witness ==
    \E s \in SemIds :
        /\ Waited(s) /\ pre.heap[s] > 0 /\ Succeeded
        /\ pre.rt.ready_queue # <<>>

\* C2: a wait on a semaphore at 0 with a non-empty ready queue succeeds; the
\* waiting thread, paired with the semaphore, is the new last entry of the
\* blocked queue; the front of the ready queue is current and gone from the
\* ready queue, whose rest keeps its order; the counter is still 0.
C2_WaitBlocks ==
    \A s \in SemIds :
        (Waited(s) /\ pre.heap[s] = 0 /\ pre.rt.ready_queue # <<>>) =>
            /\ Succeeded
            /\ Len(rt.blocked_queue) = Len(pre.rt.blocked_queue) + 1
            /\ SubSeq(rt.blocked_queue, 1, Len(pre.rt.blocked_queue))
                   = pre.rt.blocked_queue
            /\ rt.blocked_queue[Len(rt.blocked_queue)][1].thread_id
                   = pre.rt.current_thread.thread_id
            /\ rt.blocked_queue[Len(rt.blocked_queue)][2] = s
            /\ rt.current_thread = Head(pre.rt.ready_queue)
            /\ rt.ready_queue = Tail(pre.rt.ready_queue)
            /\ heap[s] = 0

\* A wait blocked while another thread was already blocked.
C2_Witness ==
    \E s \in SemIds :
        /\ Waited(s) /\ pre.heap[s] = 0 /\ Succeeded
        /\ Len(pre.rt.ready_queue) >= 1
        /\ pre.rt.blocked_queue # <<>>

\* C3: a wait on a semaphore at 0 with an empty ready queue fails with
\* NoThreadsInReadyQueue and leaves both queues holding what they held.
C3_NoReadyThreadMutatesNothing ==
    \A s \in SemIds :
        (Waited(s) /\ pre.heap[s] = 0 /\ pre.rt.ready_queue = <<>>) =>
            /\ status = NoThreadsInReadyQueue
            /\ SameQueues

\* C4: wait validates its operand first: an empty operand stack fails with
\* OperandStackUnderflow, a non-semaphore operand with a type error, and in
\* both cases no counter and no queue has changed.
C4_WaitValidatesOperand ==
    last_op.name = "wait" =>
        /\ pre_stack = <<>> =>
              status = OperandStackUnderflow /\ heap = pre.heap /\ SameQueues
        /\ (pre_stack # <<>> /\ ~(stack_top(pre_stack).kind = "Semaphore")) =>
              status \in TypeErrors /\ heap = pre.heap /\ SameQueues

\* A wait failed on a non-semaphore operand while threads were queued.
C4_Witness ==
    /\ last_op.name = "wait"
    /\ status \in TypeErrors
    /\ pre_stack # <<>>
    /\ pre.rt.ready_queue # <<>>

\* C5: whenever wait returns an error, the operand stack, the current
\* thread, the counters and both queues are as they were before the call.
C5_FailedWaitIsAllOrNothing ==
    (last_op.name = "wait" /\ ~Succeeded) =>
        /\ rt = pre.rt
        /\ heap = pre.heap

\* C6: a signal on s with blocked entries paired with s removes exactly the
\* earliest of them, appends its thread to the back of the ready queue and
\* leaves the counter of s as it was; with no such entry it adds one to the
\* counter of s and changes no queue.
C6_SignalWakesEarliestOrIncrements ==
    \A s \in SemIds :
        (Signalled(s) /\ Succeeded) =>
            LET bq == pre.rt.blocked_queue
                waiters == {i \in DOMAIN bq : bq[i][2] = s}
            IN
            /\ \A t \in SemIds \ {s} : heap[t] = pre.heap[t]
            /\ waiters = {} => heap[s] = pre.heap[s] + 1 /\ SameQueues
            /\ waiters # {} =>
                  \E i \in waiters :
                      /\ \A j \in waiters : i <= j
                      /\ rt.blocked_queue =
                             [k \in 1..(Len(bq) - 1) |->
                                 IF k < i THEN bq[k] ELSE bq[k + 1]]
                      /\ rt.ready_queue = pre.rt.ready_queue \o <<bq[i][1]>>
                      /\ heap[s] = pre.heap[s]

\* A signal woke one of two threads blocked on the same semaphore.
C6_Witness ==
    \E s \in SemIds :
        /\ Signalled(s) /\ Succeeded
        /\ Cardinality(blocked_on(pre.rt, s)) >= 2
        /\ Cardinality(blocked_on(rt, s)) = 1

\* C7: when thread A blocks in wait on a semaphore at 0, A is in the blocked
\* queue and the front of the ready queue (B) is current; a signal moves the
\* woken thread from the blocked queue to the back of the ready queue and
\* leaves the signalling thread current; the current thread changes only in
\* a wait or when the current thread halts.
C7_SignalNeverSwitches ==
    /\ \A s \in SemIds :
          (Waited(s) /\ pre.heap[s] = 0 /\ Succeeded) =>
              /\ pre.rt.current_thread.thread_id \in blocked_on(rt, s)
              /\ rt.current_thread.thread_id = Head(pre.rt.ready_queue).thread_id
    /\ \A s \in SemIds :
          (Signalled(s) /\ Succeeded) =>
              /\ rt.current_thread.thread_id = pre.rt.current_thread.thread_id
              /\ \A a \in blocked_ids(pre.rt) \ blocked_ids(rt) :
                    /\ rt.ready_queue # <<>>
                    /\ rt.ready_queue[Len(rt.ready_queue)].thread_id = a
                    /\ a # rt.current_thread.thread_id
    /\ (Succeeded /\ rt.current_thread.thread_id # pre.rt.current_thread.thread_id)
          => last_op.name \in {"wait", "done"}

\* Main blocked on a semaphore at 0, thread 2 took over and signalled it:
\* main is at the back of the ready queue, behind thread 3, and 2 still runs.
C7_Witness ==
    \E s \in SemIds :
        /\ Signalled(s) /\ Succeeded
        /\ blocked_on(pre.rt, s) = {MAIN_THREAD_ID}
        /\ blocked_ids(rt) = {}
        /\ Len(rt.ready_queue) = 2
        /\ rt.ready_queue[2].thread_id = MAIN_THREAD_ID
        /\ rt.current_thread.thread_id = MAIN_THREAD_ID + 1

\* C8: every semaphore counter is >= 0 in every reachable state, and a wait
\* on a counter that is 0 leaves it at 0.
C8_CountersNeverNegative ==
    /\ \A s \in SemIds : heap[s] >= 0
    /\ \A s \in SemIds : (Waited(s) /\ pre.heap[s] = 0) => heap[s] = 0

\* A wait found at 0 a semaphore that was created with a positive value.
C8_Witness ==
    \E s \in SemIds :
        /\ Waited(s) /\ pre.heap[s] = 0 /\ heap[s] = 0
        /\ sem_init[s] > 0
        /\ Succeeded

\* C9: the ready queue is strict FIFO: a thread that leaves the ready queue
\* became ready before every thread that stays, and the thread made current
\* by a yielding wait is the one that has been ready the longest.
C9_ReadyQueueIsFifo ==
    /\ \A x \in ready_ids(pre.rt) \ ready_ids(rt) :
          \A y \in ready_ids(pre.rt) : <<y, x>> \notin pre.before
    /\ (last_op.name = "wait" /\ Succeeded
        /\ rt.current_thread.thread_id # pre.rt.current_thread.thread_id) =>
          /\ rt.current_thread.thread_id \in ready_ids(pre.rt)
          /\ rt.current_thread.thread_id \notin ready_ids(rt)
          /\ \A y \in ready_ids(pre.rt) :
                <<y, rt.current_thread.thread_id>> \notin pre.before

\* A wait yielded with a spawned thread and a woken thread both ready, the
\* woken one behind the spawned one.
C9_Witness ==
    /\ last_op.name = "wait" /\ Succeeded
    /\ Len(pre.rt.ready_queue) = 2
    /\ pre.rt.ready_queue[2].thread_id = MAIN_THREAD_ID
    /\ rt.current_thread.thread_id = pre.rt.ready_queue[1].thread_id
    /\ ready_ids(rt) = {MAIN_THREAD_ID}

\* C10: mutual exclusion: for every semaphore the waits passed on it exceed
\* the signals executed on it by at most its initial value; a wait on a
\* positive counter passes at once; a blocked thread is neither current nor
\* ready, and it leaves the blocked queue only in a signal on its semaphore.
C10_MutualExclusion ==
    /\ \A s \in SemIds : holders[s] <= sem_init[s]
    /\ \A s \in SemIds :
          (Waited(s) /\ pre.heap[s] > 0) =>
              Succeeded /\ rt.current_thread.thread_id = pre.rt.current_thread.thread_id
    /\ Succeeded =>
          blocked_ids(rt) \cap (ready_ids(rt) \cup {rt.current_thread.thread_id}) = {}
    /\ \A s \in SemIds :
          blocked_on(pre.rt, s) \ blocked_on(rt, s) # {} => Signalled(s)

\* A semaphore created with 1 has had its one permit taken (one wait passed,
\* counter 0) and a spawned thread that then waited on it is in the blocked
\* queue paired with it, while the other spawned thread is alive outside it.
C10_Witness ==
    \E s \in SemIds :
        /\ sem_init[s] = 1 /\ heap[s] = 0 /\ holders[s] = 1
        /\ Waited(s) /\ Succeeded
        /\ pre.rt.current_thread.thread_id # MAIN_THREAD_ID
        /\ blocked_on(rt, s) = {pre.rt.current_thread.thread_id}
        /\ rt.thread_count = 3
        /\ \E x \in (blocked_ids(rt) \cup ready_ids(rt) \cup {rt.current_thread.thread_id})
                     \ blocked_on(rt, s) : x # MAIN_THREAD_ID

\* The ids of the threads the runtime holds, one entry per place held.
live_ids(r) ==
    <<r.current_thread.thread_id>>
    \o [i \in DOMAIN r.ready_queue |-> r.ready_queue[i].thread_id]
    \o [i \in DOMAIN r.blocked_queue |-> r.blocked_queue[i][1].thread_id]

\* C11: spawn gives the new thread a fresh id (the first spawn gives
\* MAIN_THREAD_ID + 1, and no two threads share an id), appends it to the back
\* of the ready queue and leaves the spawning thread current.
C11_SpawnFreshIdAtBack ==
    /\ Succeeded =>
          /\ \A i, j \in DOMAIN live_ids(rt) :
                i # j => live_ids(rt)[i] # live_ids(rt)[j]
          /\ \A i \in DOMAIN live_ids(rt) :
                /\ live_ids(rt)[i] >= MAIN_THREAD_ID
                /\ live_ids(rt)[i] < MAIN_THREAD_ID + rt.thread_count
    /\ (last_op.name = "spawn" /\ Succeeded) =>
          LET child == rt.ready_queue[Len(rt.ready_queue)] IN
          /\ rt.ready_queue = Append(pre.rt.ready_queue, child)
          /\ child.operand_stack = <<>>
          /\ child.thread_id >= MAIN_THREAD_ID + pre.rt.thread_count
          /\ pre.rt.thread_count = 1 => child.thread_id = MAIN_THREAD_ID + 1
          /\ rt.thread_count = pre.rt.thread_count + 1
          /\ rt.current_thread.thread_id = pre.rt.current_thread.thread_id
          /\ rt.blocked_queue = pre.rt.blocked_queue

\* A spawned thread spawned the third thread behind a thread already ready.
C11_Witness ==
    /\ last_op.name = "spawn" /\ Succeeded
    /\ pre.rt.thread_count = 2
    /\ rt.current_thread.thread_id = MAIN_THREAD_ID + 1
    /\ Len(rt.ready_queue) = 2
    /\ rt.ready_queue[1].thread_id = MAIN_THREAD_ID
    /\ rt.ready_queue[2].thread_id = MAIN_THREAD_ID + 2

\* C12: a thread blocked on a semaphore stays in the blocked queue, paired
\* with it, and is neither ready nor current, through every step that is not
\* a signal on that semaphore.
C12_BlockedUntilSignalled ==
    \A s \in SemIds :
        ~Signalled(s) =>
            \A x \in blocked_on(pre.rt, s) :
                /\ x \in blocked_on(rt, s)
                /\ x \notin ready_ids(rt)
                /\ x # rt.current_thread.thread_id

\* A signal on one semaphore woke its waiter while a thread blocked on the
\* other semaphore stayed blocked.
C12_Witness ==
    \E s, t \in SemIds :
        /\ s # t
        /\ Signalled(t) /\ Succeeded
        /\ blocked_on(pre.rt, t) # {} /\ blocked_on(rt, t) = {}
        /\ blocked_on(pre.rt, s) # {}
        /\ blocked_on(rt, s) = blocked_on(pre.rt, s)

\* -------------------------------------------------------- claims: environment
EnvDid(op) == env_last.op = op

\* C13: get right after set(sym, v) on the same frame returns v; get returns
\* the binding of the nearest frame on the chain that binds sym, and None
\* only when no frame on the chain binds it.
C13_GetFindsNearestBinding ==
    /\ EnvDid("set") =>
           get(frames, env_last.frame, env_last.sym) = env_last.val
    /\ EnvDid("get") =>
           IF binders(env_pre, env_last.frame, env_last.sym) = {}
           THEN env_last.result = None
           ELSE env_last.result =
                    Some(env_pre[nearest_binder(env_pre, env_last.frame, env_last.sym)]
                             .env[env_last.sym])

\* A get answered by the parent although the grandparent binds the symbol to
\* another value.
C13_Witness ==
    /\ EnvDid("get")
    /\ LET f == env_last.frame
           sym == env_last.sym IN
       /\ Len(chain(env_pre, f)) = 3
       /\ binders(env_pre, f, sym) = {2, 3}
       /\ env_pre[chain(env_pre, f)[2]].env[sym] # env_pre[chain(env_pre, f)[3]].env[sym]
       /\ env_last.result = Some(env_pre[chain(env_pre, f)[2]].env[sym])

\* C14: set writes only into the frame it is called on: get on that frame
\* returns the value, every other frame keeps its mapping and its parent, and
\* get on every ancestor still returns what it returned before.
C14_SetIsLocal ==
    EnvDid("set") =>
        LET f == env_last.frame
            sym == env_last.sym IN
        /\ get(frames, f, sym) = env_last.val
        /\ Len(frames) = Len(env_pre)
        /\ frames[f].parent = env_pre[f].parent
        /\ \A g \in DOMAIN frames \ {f} : frames[g] = env_pre[g]
        /\ \A k \in DOMAIN frames[f].env \ {sym} :
               k \in DOMAIN env_pre[f].env /\ frames[f].env[k] = env_pre[f].env[k]
        /\ \A i \in DOMAIN chain(env_pre, f) :
               i > 1 => get(frames, chain(env_pre, f)[i], sym)
                            = get(env_pre, chain(env_pre, f)[i], sym)

\* A set that shadows a different binding of an ancestor.
C14_Witness ==
    /\ EnvDid("set")
    /\ LET f == env_last.frame
           sym == env_last.sym IN
       /\ env_pre[f].parent # 0
       /\ sym \notin DOMAIN env_pre[f].env
       /\ get(env_pre, f, sym) # None
       /\ get(env_pre, f, sym) # env_last.val
       /\ get(frames, f, sym) = env_last.val
       /\ get(frames, frames[f].parent, sym) = get(env_pre, f, sym)

\* C15: get leaves every frame's mapping and parent as they were, and a
\* second get of the same symbol returns what the first returned.
C15_GetIsPure ==
    EnvDid("get") =>
        /\ frames = env_pre
        /\ get(frames, env_last.frame, env_last.sym) = env_last.result

\* A get answered by an ancestor, and a get that found nothing.
C15_Witness ==
    /\ EnvDid("get")
    /\ env_last.sym \notin DOMAIN env_pre[env_last.frame].env
    /\ env_last.result # None
    /\ \E other \in Symbols : get(frames, env_last.frame, other) = None

\* The names the interface says the global environment binds.
GlobalConstants ==
    {"true", "false", "PI", "E", "MAX_INT", "MIN_INT", "MAX_FLOAT", "MIN_FLOAT", "EPSILON"}
BuiltinSyms == {TAN_SYM}

IsBuiltinClosure(v) ==
    /\ v.kind = "Closure"
    /\ v.fn_type = "Builtin"
    /\ v.env = "Weak::new()"

\* C16: get on the global frame returns a value for every constant and every
\* builtin symbol, and a builtin's value is a Builtin closure that captures no
\* environment. new_global binds the nine constants only, so the lookup of
\* tan finds nothing.
C16_GlobalBindsPromisedNames ==
    /\ \A n \in GlobalConstants : get(frames, GlobalFrame, n) # None
    /\ \A n \in BuiltinSyms :
           /\ get(frames, GlobalFrame, n) # None
           /\ IsBuiltinClosure(get(frames, GlobalFrame, n)[1])

\* --------------------------------------------- claims: parse, compile, run
\* The items of a source text: its tokens split at the semicolons. The last
\* item is empty when the text is empty or ends with a semicolon.
RECURSIVE split(_)
split(toks) ==
    IF \A i \in DOMAIN toks : toks[i] # Semi THEN <<toks>>
    ELSE LET i == CHOOSE k \in DOMAIN toks :
                      toks[k] = Semi /\ \A j \in 1..(k - 1) : toks[j] # Semi
         IN <<SubSeq(toks, 1, i - 1)>> \o split(SubSeq(toks, i + 1, Len(toks)))

trailing(toks) == split(toks)[Len(split(toks))]

IsLiteralItem(item) == Len(item) = 1 /\ IsLiteral(item[1])
IsLetItem(item) ==
    /\ Len(item) = 4
    /\ item[1] = Let /\ item[2].type = "Ident" /\ item[3] = Eq /\ IsLiteral(item[4])
IsBinOpItem(item) ==
    /\ Len(item) = 3
    /\ item[1].type = "Integer" /\ item[2] \in {Plus, Star} /\ item[3].type = "Integer"

\* Literals and let statements separated by semicolons.
IsLiteralsAndLets(toks) ==
    LET its == split(toks) IN
    \A i \in DOMAIN its :
        \/ IsLiteralItem(its[i])
        \/ IsLetItem(its[i])
        \/ i = Len(its) /\ its[i] = <<>>

item_decl(item) ==
    IF IsLiteralItem(item) THEN ExprStmt(literal(item[1]))
    ELSE LetStmt(item[2].name, literal(item[4]))

item_text(item) ==
    IF IsLiteralItem(item) THEN spelling(item[1])
    ELSE <<"l", "e", "t", " ">> \o item[2].name \o <<" ", "=", " ">> \o spelling(item[4])

RECURSIVE statements_text(_)
statements_text(items) ==
    IF items = <<>> THEN <<>>
    ELSE item_text(Head(items)) \o <<";">> \o statements_text(Tail(items))

\* The value of an expression of the source text.
value(tok) ==
    CASE tok.type = "Integer" -> IntValue(tok.i64)
      [] tok.type = "Float"   -> FloatValue(tok.f64)
      [] tok.type = "Bool"    -> BoolValue(tok.bool)
binop_value(item) ==
    IF item[2] = Plus THEN IntValue(item[1].i64 + item[3].i64)
    ELSE IntValue(item[1].i64 * item[3].i64)

WasParsed   == stage # "lexing"
WasCompiled == stage \notin {"lexing", "parsed", "parse_error"}

\* C17: for every parsed program compile emits, for each statement in order,
\* its load-constant followed by POP, then the load-constant of the trailing
\* expression if there is one, then DONE, and DONE nowhere else. A program
\* with a let statement parses and then ends the compiler with a panic.
C17_CompileEmitsLoadPopDone ==
    WasCompiled =>
        LET decls == parsed.block.decls
            n     == Len(decls)
            last  == parsed.block.last_expr
            code  == bytecode.code IN
        /\ bytecode.err = Ok
        /\ Len(code) = 2 * n + (IF last = None THEN 0 ELSE 1) + 1
        /\ \A i \in 1..n :
               /\ code[2 * i - 1].op = "LDC"
               /\ decls[i].decl = "ExprStmt" =>
                      code[2 * i - 1] = compile_expr(decls[i].expr).code[1]
               /\ code[2 * i] = POP
        /\ last # None => code[2 * n + 1] = compile_expr(last[1]).code[1]
        /\ \A i \in DOMAIN code : code[i] = DONE <=> i = Len(code)

\* C18: a run that reaches DONE ends with the value of the trailing
\* expression of the source, and with Unit when the source has none. The
\* trailing expression 2+30 runs to 2: the parser has dropped its right
\* operand (C20).
C18_FinalValueOfTrailingExpression ==
    stage = "done" =>
        LET item == trailing(source) IN
        /\ item = <<>> => final_value = Unit
        /\ IsLiteralItem(item) => final_value = value(item[1])
        /\ IsBinOpItem(item) => final_value = binop_value(item)

C20_BinOpKeepsBothOperands ==
    WasParsed /\ Len(source) = 4 /\ IsBinOpItem(SubSeq(source, 1, 3)) /\ source[4] = Semi =>
        /\ parsed.err = Ok
        /\ parsed.block.decls =
               <<ExprStmt(BinOpExpr(IF source[2] = Plus THEN "Add" ELSE "Mul",
                                    literal(source[1]), literal(source[3])))>>
        /\ BlockSeq_to_string(parsed.block) = source_text(source)

\* The source begins with the tokens of the given types.
StartsWith(types) ==
    /\ Len(source) >= Len(types)
    /\ \A i \in DOMAIN types : source[i].type = types[i]

TokenAt(i, types) == Len(source) >= i /\ source[i].type \in types

LiteralTypes == {"Integer", "Float", "Bool"}

created(r) == MAIN_THREAD_ID..(MAIN_THREAD_ID + r.thread_count - 1)

\* Every created thread is in exactly one place: current, or once in the
\* ready queue, or once in the blocked queue.
EveryThreadOnce(r) ==
    /\ Len(live_ids(r)) = r.thread_count
    /\ {live_ids(r)[i] : i \in DOMAIN live_ids(r)} = created(r)

\* C22: a successful spawn, wait or signal (or a load of an operand) loses
\* no thread and duplicates none: when every created thread was in exactly
\* one place before it, every created thread is in exactly one place after
\* it, and one of them is current. This holds after load, so it holds after
\* every sequence of such operations.
C22_EveryThreadInOnePlace ==
    /\ last_op.name = "load" => EveryThreadOnce(rt)
    /\ ( /\ Succeeded
         /\ last_op.name \in {"spawn", "wait", "signal", "ld", "pop"}
         /\ EveryThreadOnce(pre.rt) )
       => /\ EveryThreadOnce(rt)
          /\ rt.current_thread.thread_id \in created(rt)
          /\ created(pre.rt) \subseteq created(rt)

\* Three threads, one current, one ready, one blocked, after a signal woke
\* one of two blocked threads.
C22_Witness ==
    /\ Succeeded /\ last_op.name = "signal"
    /\ EveryThreadOnce(pre.rt)
    /\ rt.thread_count = 3
    /\ Len(pre.rt.blocked_queue) = 2
    /\ Len(rt.ready_queue) = 1 /\ Len(rt.blocked_queue) = 1

\* C23: no lost wake-up: while a thread is in the blocked queue paired with
\* semaphore s, the counter of s is 0.
C23_NoLostWakeup ==
    \A s \in SemIds : blocked_on(rt, s) # {} => heap[s] = 0

\* A signal on s handed over to one of two threads blocked on s: the other
\* is still blocked and the counter is still 0.
C23_Witness ==
    \E s \in SemIds :
        /\ Signalled(s) /\ Succeeded
        /\ Cardinality(blocked_on(pre.rt, s)) = 2
        /\ Cardinality(blocked_on(rt, s)) = 1
        /\ heap[s] = 0

\* The operand stack of the waiting thread without its top, the semaphore.
pre_stack_below == SubSeq(pre_stack, 1, Len(pre_stack) - 1)

\* C24: wait consumes its semaphore operand in both branches. After a wait
\* that proceeds, the current thread's stack is the stack before the wait
\* without the semaphore; after a wait at counter 0, the thread stored last
\* in the blocked queue is the waiting thread with that shorter stack. A
\* signal that hands over moves the earliest waiter to the back of the ready
\* queue as it was stored and leaves the counter as it was, so the woken
\* thread does not decrement it.
C24_WaitConsumesOperand ==
    \A s \in SemIds :
        /\ (Waited(s) /\ Succeeded /\ pre.heap[s] > 0) =>
               /\ rt.current_thread.thread_id = pre.rt.current_thread.thread_id
               /\ rt.current_thread.operand_stack = pre_stack_below
        /\ (Waited(s) /\ pre.heap[s] = 0) =>
               /\ rt.blocked_queue # <<>>
               /\ rt.blocked_queue[Len(rt.blocked_queue)]
                      = <<Thread(pre.rt.current_thread.thread_id, pre_stack_below), s>>
               /\ Len(rt.blocked_queue[Len(rt.blocked_queue)][1].operand_stack)
                      = Len(pre_stack) - 1
        /\ (Signalled(s) /\ Succeeded /\ blocked_on(pre.rt, s) # {}) =>
               /\ rt.ready_queue # <<>>
               /\ \E i \in DOMAIN pre.rt.blocked_queue :
                      /\ pre.rt.blocked_queue[i][2] = s
                      /\ rt.ready_queue[Len(rt.ready_queue)] = pre.rt.blocked_queue[i][1]
               /\ heap[s] = pre.heap[s]

\* A blocking wait while another thread was already blocked.
C24_Witness ==
    \E s \in SemIds :
        /\ Waited(s) /\ Succeeded /\ pre.heap[s] = 0
        /\ pre_stack # <<>>
        /\ Len(rt.blocked_queue) = 2
        /\ rt.blocked_queue[2][1].operand_stack = pre_stack_below

\* -------------------------------------------------- claims: run, again
depth == Len(machine.rt.current_thread.operand_stack)

\* The run of a compiled program is where it should be: no VmError has
\* ended it, every POP of the program follows a load-constant, the operand
\* stack holds at most one value, the program counter is inside the program
\* while it runs and has passed every instruction once when it is done.
RunsInBounds ==
    /\ stage \in {"lexing", "parsed", "parse_error", "compiled", "panicked",
                  "running", "done"}
    /\ WasCompiled /\ bytecode.err = Ok =>
           \A i \in DOMAIN bytecode.code :
               bytecode.code[i] = POP => i > 1 /\ bytecode.code[i - 1].op = "LDC"
    /\ stage \in {"running", "done"} =>
           /\ depth <= 1
           /\ machine.pc <= Len(bytecode.code)
           /\ \A i \in 1..machine.pc : bytecode.code[i] = DONE <=> stage = "done" /\ i = machine.pc
    /\ stage = "running" => machine.pc < Len(bytecode.code)
    /\ stage = "done" => machine.pc = Len(bytecode.code)

\* C25: every program compile emits runs without OperandStackUnderflow and
\* without PcOutOfBounds, with an operand stack of depth at most 1, and
\* reaches DONE having executed every instruction before it exactly once.
C25_CompiledProgramRunsToDone ==
    /\ []RunsInBounds
    /\ (stage = "compiled") ~> (stage = "done")

\* `<literal>; <literal>` has run to DONE.
C25_Witness ==
    /\ stage = "done"
    /\ Len(bytecode.code) = 4
    /\ machine.pc = 4
    /\ depth = 1

====
